---------------------------- MODULE Spec2Model ----------------------------
(***************************************************************************)
(* A model of sci_analysis/analysis/analysis.py: the Analysis/Test class   *)
(* hierarchy and the analyze dispatcher.                                   *)
(*                                                                         *)
(* Every public entry point (a constructor of a test class, or analyze)    *)
(* runs synchronously to completion, so each is one action.  An action     *)
(* records the object the constructor leaves behind (its data, alpha,      *)
(* display flag and results mapping), the exception that escaped it, and   *)
(* the ordered trace of what it did: constructors entered, numeric library *)
(* routines invoked (with their arguments), plots rendered, reports        *)
(* formatted.                                                              *)
(*                                                                         *)
(* Numbers: p-values and alpha are in hundredths (0.05 is 5).  The numeric *)
(* library (scipy/numpy) is outside the repository: a routine's statistic  *)
(* is the uninterpreted term "routine applied to these arguments", and its *)
(* p-value is drawn from PValues by the action that makes the call (one    *)
(* value per routine, and for shapiro one value per distinct data array,   *)
(* so that a routine stays a function of its arguments).  What shapiro     *)
(* does with fewer than three points depends on the scipy installed        *)
(* (ValueError or nan); the action draws that too.                         *)
(***************************************************************************)
EXTENDS Integers, Sequences, FiniteSets, TLC

VARIABLES call,    \* the entry point invoked and its arguments ("none" before)
          obj,     \* the object the constructor built (fields of Analysis/Test)
          trace,   \* ordered events of the call
          err      \* exception that escaped the call, "none" if it returned

vars == <<call, obj, trace, err>>

---------------------------------------------------------------------------
(* Bounds and value domains *)

MaxLen == 4          \* longest raw sample
MaxGroups == 3       \* most members of a group input
MaxRuns == 2         \* most calls of run() and logic() on a finished object

NaN == -1            \* float("nan")
STR == -2            \* an element that is a non-numeric string ("two")
DefaultAlpha == 5    \* alpha = 0.05
Key0 == "0"          \* the integer key 0 used in results[0]

Alphas == {DefaultAlpha, 9}
PValues == {1, 9}
Mus == {0, 3}
\* a lone argument that is not iterable: the string "two", or a number
Scalars == {STR, 3}

\* python's  p > alpha  on floats: any comparison with nan is False
Gt(p, a) == p # NaN /\ p > a

\* all sequences over E of length 0..n
RawSamples(E, n) == UNION {[1..k -> E] : k \in 0..n}

---------------------------------------------------------------------------
(* The vector collaborator (sci_analysis.data.vector, operations) *)

\* Vector(seq): coerce every element to float, what cannot be coerced is nan
Vector(raw) == [i \in 1..Len(raw) |-> IF raw[i] = STR THEN NaN ELSE raw[i]]

is_empty(v) == Len(v) = 0

drop_nan(v) == SelectSeq(v, LAMBDA e : e # NaN)

\* keep the indices at which neither vector holds nan
drop_nan_intersect(x, y) ==
    LET idx  == [i \in 1..Len(x) |-> i]
        keep == SelectSeq(idx, LAMBDA i : x[i] # NaN /\ y[i] # NaN)
    IN  << [j \in 1..Len(keep) |-> x[keep[j]]],
           [j \in 1..Len(keep) |-> y[keep[j]]] >>

concatenate(x, y) == x \o y

\* A python value passed as an argument: an iterable sample or a scalar.
Vec(s)  == [iter |-> TRUE,  val |-> s]
Scal(n) == [iter |-> FALSE, val |-> <<n>>]

is_iterable(a) == a.iter

\* a python list of raw samples as positional arguments
AsArgsOf(g) == [i \in 1..Len(g) |-> Vec(g[i])]

\* is_group(seq): some member of seq is itself iterable
is_group(args) == \E i \in 1..Len(args) : is_iterable(args[i])

\* self._data is a python list of values, or one value (list = FALSE)
ListData(items) == [list |-> TRUE,  items |-> items]
OneData(a)      == [list |-> FALSE, items |-> <<a>>]
NoData          == ListData(<<>>)

\* *self._data : the positional arguments a starred data expands to;
\* a float cannot be starred
StarOk(d) == d.list \/ is_iterable(d.items[1])
Star(d) ==
    IF d.list THEN d.items
    ELSE [i \in 1..Len(d.items[1].val) |-> Scal(d.items[1].val[i])]

\* the numbers an array-like holds, as numpy sees them
RECURSIVE Flatten(_)
Flatten(items) ==
    IF items = <<>> THEN <<>> ELSE Head(items).val \o Flatten(Tail(items))
AsArray(d) == Flatten(d.items)

---------------------------------------------------------------------------
(* Events, results mappings, objects *)

Event(ev, name, args, alpha, display, tag, p) ==
    [ev |-> ev, name |-> name, args |-> args, alpha |-> alpha,
     display |-> display, tag |-> tag, p |-> p]
\* a constructor was entered with these arguments
EvCtor(cls, args, alpha, display) == Event("ctor", cls, args, alpha, display, "", NaN)
\* its data_prep ran on these arguments
EvPrep(cls, args) == Event("prep", cls, args, 0, FALSE, "", NaN)
\* a numeric library routine was invoked (kw: its keyword arguments)
EvLib(fn, args, kw) == Event("lib", fn, args, 0, FALSE, kw, NaN)
\* a routine was invoked and returned this p-value
EvLibP(fn, args, kw, p) == Event("lib", fn, args, 0, FALSE, kw, p)
\* output() built the report, with this hypothesis sentence
EvOutput(cls, hyp) == Event("output", cls, <<>>, 0, TRUE, hyp, NaN)
\* a plot was rendered
EvPlot(name, args) == Event("plot", name, args, 0, TRUE, "", NaN)
\* a constructor returned: the variant tag and p_value its object reports
EvRet(cls, tag, p) == Event("ret", cls, <<>>, 0, FALSE, tag, p)

\* an accessor of the finished object was read and gave this value
EvRead(accessor, value) == Event("read", accessor, <<value>>, 0, FALSE, "", NaN)
\* the public run() of the finished object was called
EvRun(cls) == Event("run", cls, <<>>, 0, FALSE, "", NaN)
\* the public logic() of the finished object was called
EvLogic(cls) == Event("logic", cls, <<>>, 0, FALSE, "", NaN)

\* the statistic a library routine returns for these arguments
LibVal(fn, out, args) == [fn |-> fn, out |-> out, args |-> args]

EmptyDict == [k \in {} |-> 0]
HasKey(d, k) == k \in DOMAIN d
\* dict.update(new)
Update(d, new) == new @@ d

\* Analysis.__init__ : data, display, empty results
Analysis_init(cls, data, alpha, display) ==
    [cls |-> cls, data |-> data, alpha |-> alpha, display |-> display,
     results |-> EmptyDict, err |-> "none", trace |-> <<>>]

Raised(o, e, events) == [o EXCEPT !.err = e, !.trace = @ \o events]
Did(o, events) == [o EXCEPT !.trace = @ \o events]

\* Test.statistic with 0 in place of nan for a missing key
Test_statistic_zero(o) ==
    IF HasKey(o.results, "statistic") THEN o.results["statistic"] ELSE 0

\* Test.statistic / Test.p_value : the key, or nan when it is missing
Test_statistic(o) ==
    IF HasKey(o.results, "statistic") THEN o.results["statistic"] ELSE NaN
Test_p_value(o) ==
    IF HasKey(o.results, "p_value") THEN o.results["p_value"] ELSE NaN

\* Hypothesis with the null text kept when p_value equals alpha
Hypothesis_ge(p, alpha) == IF p # NaN /\ p >= alpha THEN "h0" ELSE "ha"

\* the hypothesis sentence output() picks
Hypothesis(p, alpha) == IF Gt(p, alpha) THEN "h0" ELSE "ha"

---------------------------------------------------------------------------
(* Test: cleaning and construction *)

Test_min_size == 2
Comparison_min_size == 3

\* Test.data_prep(data): scalars are coerced with float(), iterables are
\* nan-dropped and skipped when empty or not longer than min_size
Test_data_prep_keep(d, min_size) ==
    IF ~is_iterable(d) THEN d.val[1] # STR
    ELSE LET v == drop_nan(Vector(d.val))
         IN  ~(is_empty(v) \/ Len(v) <= min_size)
Test_data_prep_clean(d) ==
    IF ~is_iterable(d) THEN d ELSE Vec(drop_nan(Vector(d.val)))
Test_data_prep(data, min_size) ==
    LET kept == SelectSeq(data, LAMBDA d : Test_data_prep_keep(d, min_size))
    IN  [i \in 1..Len(kept) |-> Test_data_prep_clean(kept[i])]

\* lines 145-149: a list of at most one element is replaced by its element
Unwrap(list) ==
    IF Len(list) <= 1
    THEN IF Len(list) = 1 THEN OneData(list[1]) ELSE NoData
    ELSE ListData(list)


\* the characters of the non-numeric string ("two"): each one is a string
\* that float() rejects
StrChars == <<Scal(STR), Scal(STR), Scal(STR)>>

\* line 144, else branch: data_prep(*args) of arguments none of which is
\* iterable.  One string is iterated character by character; anything else
\* raises TypeError (wrong number of positional arguments, or iteration
\* over a float).
Test_init_starred_ok(args) == Len(args) = 1 /\ args[1].val[1] = STR

\* Test.__init__ up to the call of logic(): alpha, data_prep, unwrapping.
Test_init(cls, args, alpha, display, min_size) ==
    LET o == Did(Analysis_init(cls, NoData, alpha, display),
                 <<EvCtor(cls, args, alpha, display)>>)
    IN  IF is_group(args)
        THEN Did([o EXCEPT !.data = Unwrap(Test_data_prep(args, min_size))],
                 <<EvPrep(cls, args)>>)
        ELSE IF Test_init_starred_ok(args)
        THEN Did([o EXCEPT !.data = Unwrap(Test_data_prep(StrChars, min_size))],
                 <<EvPrep(cls, StrChars)>>)
        ELSE Raised(o, "TypeError", <<>>)

\* the discriminator a results mapping carries, if any
Variant(o) ==
    IF o.cls \in {"TTest", "EqualVariance"} /\ HasKey(o.results, "test")
    THEN o.results["test"]
    ELSE IF o.cls = "Correlation" /\ HasKey(o.results, "type")
    THEN o.results["type"] ELSE ""

Returned(o) ==
    IF o.err # "none" THEN o
    ELSE Did(o, <<EvRet(o.cls, Variant(o),
                        IF o.cls \in {"VectorStatistics", "GroupStatistics"}
                        THEN NaN ELSE Test_p_value(o))>>)

\* Test.output(): statistic and p_value through the accessors, then the
\* hypothesis sentence
Test_output(o) ==
    Did(o, <<EvOutput(o.cls, Hypothesis(Test_p_value(o), o.alpha))>>)

EqualVariance_output(o) ==
    Did(o, <<EvOutput(o.cls, Hypothesis(Test_p_value(o), o.alpha))>>)

\* line 328 indexes the string _statistic_name with results['test']
TTest_output(o) == Raised(o, "TypeError", <<>>)

LinearRegression_output(o) ==
    Did(o, <<EvOutput(o.cls, Hypothesis(Test_p_value(o), o.alpha))>>)

Correlation_output(o) ==
    Did(o, <<EvOutput(o.cls, Hypothesis(Test_p_value(o), o.alpha))>>)

VectorStatistics_output(o) == Did(o, <<EvOutput(o.cls, "")>>)

GroupStatistics_output(o) == Did(o, <<EvOutput(o.cls, "")>>)

\* str(self): the output() of the object's own class
Analysis_output(o) ==
    CASE o.cls = "EqualVariance"    -> EqualVariance_output(o)
      [] o.cls = "TTest"            -> TTest_output(o)
      [] o.cls = "LinearRegression" -> LinearRegression_output(o)
      [] o.cls = "Correlation"      -> Correlation_output(o)
      [] o.cls = "VectorStatistics" -> VectorStatistics_output(o)
      [] o.cls = "GroupStatistics"  -> GroupStatistics_output(o)
      [] OTHER                      -> Test_output(o)

\* Analysis.logic(): run(), then str(self) when display is set; ran is the
\* object after its class's run()
Analysis_logic(o, ran) ==
    IF o.err # "none" THEN o
    ELSE IF ran.err # "none" THEN ran
    ELSE IF ran.display THEN Returned(Analysis_output(ran)) ELSE Returned(ran)

\* Analysis.run(): pass
Analysis_run(o) == o

\* the base class constructed directly: Test(*args, alpha=, display=)
Test(args, alpha, display) ==
    LET o == Test_init("Test", args, alpha, display, Test_min_size)
    IN  Analysis_logic(o, Analysis_run(o))

---------------------------------------------------------------------------
(* The numeric library *)

\* shapiro needs three points.  Below that the outcome depends on the scipy
\* the program is run with: before 1.14 shapiro raises ValueError ("Data
\* must be at least length 3."), from 1.14 on it returns nan.  lib.strict
\* tells which of the two the library is.
ShapiroRaises(lib, array) == lib.strict /\ Len(array) < 3
ShapiroP(lib, array) ==
    IF Len(array) < 3 \/ array \notin DOMAIN lib.sh THEN NaN ELSE lib.sh[array]

\* one family of routines is entered at most once per call, so a p-value
\* per family is a p-value per invocation
RoleOf(fn) ==
    CASE fn \in {"bartlett", "levene"}             -> "var"
      [] fn \in {"ttest_1samp", "ttest_ind", "f_oneway", "kruskal"} -> "means"
      [] fn \in {"pearsonr", "spearmanr"}          -> "corr"
      [] fn = "linregress"                         -> "regress"
      [] OTHER                                     -> "kstest"
LibP(lib, fn) == lib.p[RoleOf(fn)]

\* python's min() over a list of floats
RECURSIVE PyMinFrom(_, _)
PyMinFrom(m, rest) ==
    IF rest = <<>> THEN m
    ELSE PyMinFrom(IF Head(rest) # NaN /\ m # NaN /\ Head(rest) < m
                   THEN Head(rest) ELSE m, Tail(rest))
PyMin(list) == PyMinFrom(Head(list), Tail(list))
\* list.index(x) giving the last position holding x
PyIndex_last(list, x) == CHOOSE i \in 1..Len(list) :
    list[i] = x /\ \A j \in (i + 1)..Len(list) : list[j] # x
\* list.index(x): the first position holding x
PyIndex(list, x) == CHOOSE i \in 1..Len(list) :
    list[i] = x /\ \A j \in 1..(i - 1) : list[j] # x

---------------------------------------------------------------------------
(* NormTest *)

\* lines 252-253: shapiro on the data as a whole
NormTest_run_single(o, lib) ==
    LET a == <<Vec(AsArray(o.data))>>
    IN  IF ShapiroRaises(lib, a[1].val)
        THEN Raised(o, "ValueError", <<EvLibP("shapiro", a, "", NaN)>>)
        ELSE [Did(o, <<EvLibP("shapiro", a, "", ShapiroP(lib, a[1].val))>>)
                EXCEPT !.results =
                Update(@, [statistic |-> LibVal("shapiro", "W", a),
                           p_value |-> ShapiroP(lib, a[1].val)])]

\* lines 254-263: shapiro on each member in turn; the loop ends at the first
\* member shapiro raises on
NormTest_run_group(o, lib) ==
    LET ds == o.data.items
        ws == [i \in 1..Len(ds) |-> LibVal("shapiro", "W", <<ds[i]>>)]
        ps == [i \in 1..Len(ds) |-> ShapiroP(lib, ds[i].val)]
        short == {i \in 1..Len(ds) : ShapiroRaises(lib, ds[i].val)}
        stop == CHOOSE i \in short : \A j \in short : i <= j
        min_p == PyMin(ps)
    IN  IF short # {}
        THEN Raised(o, "ValueError",
                    [i \in 1..stop |->
                        EvLibP("shapiro", <<ds[i]>>, "",
                               IF i = stop THEN NaN ELSE ps[i])])
        ELSE [Did(o, [i \in 1..Len(ds) |-> EvLibP("shapiro", <<ds[i]>>, "", ps[i])])
                EXCEPT !.results =
                Update(@, [statistic |-> ws[PyIndex(ps, min_p)],
                           p_value |-> min_p])]

NormTest_run(o, lib) ==
    IF ~(o.data.list /\ is_group(o.data.items))
    THEN NormTest_run_single(o, lib)
    ELSE NormTest_run_group(o, lib)

NormTest(args, alpha, display, lib) ==
    LET o == Test_init("NormTest", args, alpha, display, Test_min_size)
    IN  Analysis_logic(o, NormTest_run(o, lib))

---------------------------------------------------------------------------
(* EqualVariance *)

\* EqualVariance_choose with >= in place of >
EqualVariance_choose_ge(norm_p, alpha) ==
    IF norm_p # NaN /\ norm_p >= alpha THEN "Bartlett" ELSE "Levene"

\* line 454: Bartlett when the group is normal
EqualVariance_choose(norm_p, alpha) ==
    IF Gt(norm_p, alpha) THEN "Bartlett" ELSE "Levene"

EqualVariance_routine(test) == IF test = "Bartlett" THEN "bartlett" ELSE "levene"

\* lines 455-460, nt being the NormTest of line 454
EqualVariance_run_variant(o, nt, lib) ==
    IF nt.err # "none" THEN Raised(o, nt.err, nt.trace)
    ELSE LET test == EqualVariance_choose(Test_p_value(nt), o.alpha)
             fn   == EqualVariance_routine(test)
             a    == Star(o.data)
         IN  [Did(o, nt.trace \o <<EvLib(fn, a, "")>>)
                EXCEPT !.results =
                Update(@, [p_value |-> LibP(lib, fn),
                           statistic |-> LibVal(fn, "statistic", a),
                           test |-> test])]

EqualVariance_run(o, lib) ==
    IF ~StarOk(o.data) THEN Raised(o, "TypeError", <<>>)
    ELSE EqualVariance_run_variant(
             o, NormTest(Star(o.data), o.alpha, FALSE, lib), lib)

EqualVariance(args, alpha, display, lib) ==
    LET o == Test_init("EqualVariance", args, alpha, display, Test_min_size)
    IN  Analysis_logic(o, EqualVariance_run(o, lib))

---------------------------------------------------------------------------
(* KSTest *)

KSTest_run(o, parms, lib) ==
    LET a == <<Vec(AsArray(o.data))>>
    IN  [Did(o, <<EvLib("kstest", a, IF parms THEN "norm,parms" ELSE "norm")>>)
           EXCEPT !.results =
           Update(@, [statistic |-> LibVal("kstest", "D", a),
                      p_value |-> LibP(lib, "kstest")])]

KSTest(x, parms, alpha, display, lib) ==
    LET o == Test_init("KSTest", <<x>>, alpha, display, Test_min_size)
    IN  Analysis_logic(o, KSTest_run(o, parms, lib))

---------------------------------------------------------------------------
(* TTest *)

\* self._mu : None, or float(ydata) when ydata is not iterable; float() of
\* a non-numeric string raises ValueError (line 304)
NoMu == [set |-> FALSE, v |-> 0, err |-> "none"]
TTest_mu(ydata) ==
    IF is_iterable(ydata) THEN NoMu
    ELSE IF ydata.val[1] = STR THEN [NoMu EXCEPT !.err = "ValueError"]
    ELSE [set |-> TRUE, v |-> ydata.val[1], err |-> "none"]

\* line 310:  if self._mu:  (None and 0.0 are both false)
TTest_is_one_sample(mu) == mu.set /\ mu.v # 0

\* lines 305/307: both branches hand only xdata to Test.__init__
TTest_init_args(xdata, ydata) == <<xdata>>

\* lines 314-319
TTest_choose(var_p, alpha) == IF Gt(var_p, alpha) THEN "t_test" ELSE "welch_t"

\* lines 314-320, ev being the EqualVariance of line 314
TTest_run_two_sample(o, ev, lib) ==
    IF ev.err # "none" THEN Raised(o, ev.err, ev.trace)
    ELSE LET test == TTest_choose(Test_p_value(ev), o.alpha)
             kw   == IF test = "t_test" THEN "equal_var=True"
                                        ELSE "equal_var=False"
             a    == Star(o.data)
         IN  [Did(o, ev.trace \o <<EvLib("ttest_ind", a, kw)>>)
                EXCEPT !.results =
                Update(@, [p_value |-> LibP(lib, "ttest_ind"),
                           t_value |-> LibVal("ttest_ind", kw, a),
                           test |-> test])]

TTest_run(o, mu, lib) ==
    IF TTest_is_one_sample(mu)
    THEN LET a == <<Vec(AsArray(o.data)), Scal(mu.v)>>
         IN  [Did(o, <<EvLib("ttest_1samp", a, "")>>) EXCEPT !.results =
                Update(@, [p_value |-> LibP(lib, "ttest_1samp"),
                           t_value |-> LibVal("ttest_1samp", "t", a),
                           test |-> "1_sample"])]
    ELSE IF ~StarOk(o.data) THEN Raised(o, "TypeError", <<>>)
    ELSE TTest_run_two_sample(
             o, EqualVariance(Star(o.data), o.alpha, FALSE, lib), lib)

\* lines 302-307: float(ydata) comes before Test.__init__
TTest(xdata, ydata, alpha, display, lib) ==
    LET mu == TTest_mu(ydata)
        t == Test_init("TTest", TTest_init_args(xdata, ydata), alpha, display,
                       Test_min_size)
        o == [t EXCEPT !.trace[1] =
                         EvCtor("TTest", <<xdata, ydata>>, alpha, display)]
    IN  IF mu.err # "none"
        THEN Raised(Did(Analysis_init("TTest", NoData, alpha, display),
                        <<EvCtor("TTest", <<xdata, ydata>>, alpha, display)>>),
                    mu.err, <<>>)
        ELSE Analysis_logic(o, TTest_run(o, mu, lib))

---------------------------------------------------------------------------
(* Comparison: LinearRegression and Correlation *)

\* Comparison.data_prep: the three checks end in pass, so a pair that fails
\* one is kept as it is and only a pair that passes all is nan-intersected
Comparison_data_prep(data, min_size) ==
    LET xdata == Vector(data[1].val)
        ydata == Vector(data[2].val)
    IN  IF Len(xdata) # Len(ydata) THEN <<Vec(xdata), Vec(ydata)>>
        ELSE IF Len(xdata) <= min_size \/ Len(xdata) <= min_size
             THEN <<Vec(xdata), Vec(ydata)>>
        ELSE IF is_empty(xdata) \/ is_empty(ydata)
             THEN <<Vec(xdata), Vec(ydata)>>
        ELSE LET c == drop_nan_intersect(xdata, ydata)
             IN  <<Vec(c[1]), Vec(c[2])>>

Comparison_init(cls, args, alpha, display, min_size) ==
    LET o == Did(Analysis_init(cls, NoData, alpha, display),
                 <<EvCtor(cls, args, alpha, display)>>)
    IN  IF is_group(args)
        THEN Did([o EXCEPT !.data = Unwrap(Comparison_data_prep(args, min_size))],
                 <<EvPrep(cls, args)>>)
        ELSE Raised(o, "TypeError", <<>>)

Comparison_xdata(o) == o.data.items[1]
Comparison_ydata(o) == o.data.items[2]

\* line 347: the arguments handed to linregress
LinearRegression_args(o) == <<Comparison_xdata(o), Comparison_xdata(o)>>

LinearRegression_run(o, lib) ==
    LET a == LinearRegression_args(o)
    IN  [Did(o, <<EvLib("linregress", a, "")>>) EXCEPT !.results =
           Update(@, [count |-> Len(Comparison_xdata(o).val),
                      slope |-> LibVal("linregress", "slope", a),
                      intercept |-> LibVal("linregress", "intercept", a),
                      r2 |-> LibVal("linregress", "r2", a),
                      std_err |-> LibVal("linregress", "std_err", a),
                      p_value |-> LibP(lib, "linregress")])]

LinearRegression(x, y, alpha, display, lib) ==
    LET o == Comparison_init("LinearRegression", <<x, y>>, alpha, display,
                             Comparison_min_size)
    IN  Analysis_logic(o, LinearRegression_run(o, lib))

\* Correlation_choose with the branches exchanged
Correlation_choose_swapped(norm_p, alpha) ==
    IF Gt(norm_p, alpha) THEN "spearman" ELSE "pearson"

\* line 384: Pearson when the pooled data is normal
Correlation_choose(norm_p, alpha) ==
    IF Gt(norm_p, alpha) THEN "pearson" ELSE "spearman"

Correlation_routine(r) == IF r = "pearson" THEN "pearsonr" ELSE "spearmanr"

\* line 384: the inner NormTest gets the outer alpha
Correlation_norm_alpha(o) == o.alpha

Correlation_run(o, lib) ==
    LET pooled == Vec(concatenate(Comparison_xdata(o).val,
                                  Comparison_ydata(o).val))
        nt == NormTest(<<pooled>>, Correlation_norm_alpha(o), FALSE, lib)
    IN  IF nt.err # "none" THEN Raised(o, nt.err, nt.trace)
        ELSE LET r  == Correlation_choose(Test_p_value(nt), o.alpha)
                 fn == Correlation_routine(r)
                 a  == <<Comparison_xdata(o), Comparison_ydata(o)>>
             IN  [Did(o, nt.trace \o <<EvLib(fn, a, "")>>) EXCEPT !.results =
                    Update(@, [r_value |-> LibVal(fn, "r", a),
                               p_value |-> LibP(lib, fn),
                               type |-> r])]

Correlation(x, y, alpha, display, lib) ==
    LET o == Comparison_init("Correlation", <<x, y>>, alpha, display,
                             Comparison_min_size)
    IN  Analysis_logic(o, Correlation_run(o, lib))

---------------------------------------------------------------------------
(* Anova and Kruskal *)

Anova_run(o, lib) ==
    IF ~StarOk(o.data) THEN Raised(o, "TypeError", <<>>)
    ELSE LET a == Star(o.data)
         IN  [Did(o, <<EvLib("f_oneway", a, "")>>) EXCEPT !.results =
                Update(@, [p_value |-> LibP(lib, "f_oneway"),
                           f_value |-> LibVal("f_oneway", "f", a)])]

Anova(args, alpha, display, lib) ==
    LET o == Test_init("Anova", args, alpha, display, Test_min_size)
    IN  Analysis_logic(o, Anova_run(o, lib))

Kruskal_run(o, lib) ==
    IF ~StarOk(o.data) THEN Raised(o, "TypeError", <<>>)
    ELSE LET a == Star(o.data)
         IN  [Did(o, <<EvLib("kruskal", a, "")>>) EXCEPT !.results =
                Update(@, [p_value |-> LibP(lib, "kruskal"),
                           h_value |-> LibVal("kruskal", "h", a)])]

Kruskal(args, alpha, display, lib) ==
    LET o == Test_init("Kruskal", args, alpha, display, Test_min_size)
    IN  Analysis_logic(o, Kruskal_run(o, lib))

---------------------------------------------------------------------------
(* VectorStatistics and GroupStatistics *)

VectorStatistics_min_size == 2
GroupStatistics_min_size == 1

VectorStatistics_keys ==
    {"count", "mean", "std", "error", "median", "min", "max", "range",
     "skew", "kurtosis", "q1", "q3", "iqr"}

\* VectorStatistics.data_prep: None when the cleaned vector is too short
VectorStatistics_data_prep(data) ==
    LET v == drop_nan(Vector(data.val))
    IN  IF is_empty(v) \/ Len(v) < VectorStatistics_min_size
        THEN NoData ELSE OneData(Vec(v))

\* len(None) raises TypeError
VectorStatistics_run(o, sample) ==
    IF o.data = NoData THEN Raised(o, "TypeError", <<>>)
    ELSE LET a   == <<o.data.items[1]>>
             dof == IF sample THEN "ddof=1" ELSE "ddof=0"
         IN  [Did(o, <<EvLib("describe", a, dof)>>) EXCEPT !.results =
                [k \in VectorStatistics_keys |->
                    IF k = "count" THEN Len(a[1].val)
                    ELSE LibVal(k, IF k \in {"std", "error"} THEN dof ELSE "", a)]]

VectorStatistics(data, sample, display) ==
    LET o == Did([Analysis_init("VectorStatistics",
                                VectorStatistics_data_prep(data), 0, display)
                  EXCEPT !.trace = <<EvCtor("VectorStatistics", <<data>>, 0, display)>>],
                 <<EvPrep("VectorStatistics", <<data>>)>>)
    IN  Analysis_logic(o, VectorStatistics_run(o, sample))

\* dict(pairs): a key keeps the position of its first pair and the value
\* of its last
PyDict(pairs) ==
    LET idx   == [i \in 1..Len(pairs) |-> i]
        first == SelectSeq(idx, LAMBDA i :
                     \A j \in 1..(i - 1) : pairs[j].key # pairs[i].key)
        last(k) == CHOOSE i \in 1..Len(pairs) :
                     /\ pairs[i].key = k
                     /\ \A j \in (i + 1)..Len(pairs) : pairs[j].key # k
    IN  [n \in 1..Len(first) |-> pairs[last(pairs[first[n]].key)]]

Min2(a, b) == IF a < b THEN a ELSE b

\* a member of the group input: a python list (vector = FALSE) or a Vector
\* object, which holds floats already
GroupStatistics_member(data, vectors, i) ==
    [val |-> IF i \in vectors THEN Vector(data[i]) ELSE data[i],
     vector |-> i \in vectors]

\* line 554: zip(groups, data) when groups is given, else labels 1..len(data);
\* vectors is the set of positions of data that hold a Vector object
GroupStatistics_dict(data, vectors, groups) ==
    LET item(k, i) == [key |-> k] @@ GroupStatistics_member(data, vectors, i)
    IN  IF groups # <<>>
        THEN PyDict([i \in 1..Min2(Len(groups), Len(data)) |-> item(groups[i], i)])
        ELSE PyDict([i \in 1..Len(data) |-> item(i, i)])

\* the local v of data_prep before its first assignment
Unbound == [bound |-> FALSE, val |-> <<>>]

\* GroupStatistics.data_prep, lines 559-569: an empty member is skipped; v is
\* assigned only for a member that is not a Vector (line 564), so a Vector
\* member is read through the v of the member before it, and raises
\* UnboundLocalError when there was none
RECURSIVE GroupStatistics_data_prep_loop(_, _, _)
GroupStatistics_data_prep_loop(pairs, v, clean) ==
    IF pairs = <<>> THEN [err |-> "none", clean |-> clean]
    ELSE LET e  == Head(pairs)
             v2 == IF ~e.vector THEN [bound |-> TRUE, val |-> Vector(e.val)] ELSE v
         IN  IF Len(e.val) = 0
             THEN GroupStatistics_data_prep_loop(Tail(pairs), v, clean)
             ELSE IF ~v2.bound
             THEN [err |-> "UnboundLocalError", clean |-> clean]
             ELSE IF Len(v2.val) < GroupStatistics_min_size
             THEN GroupStatistics_data_prep_loop(Tail(pairs), v2, clean)
             ELSE GroupStatistics_data_prep_loop(
                      Tail(pairs), v2,
                      Append(clean, [key |-> e.key, val |-> drop_nan(v2.val)]))

GroupStatistics_data_prep(pairs) ==
    GroupStatistics_data_prep_loop(pairs, Unbound, <<>>)

GroupStatistics_row(e) ==
    [group |-> e.key, count |-> Len(e.val),
     mean |-> LibVal("mean", "", <<Vec(e.val)>>),
     std |-> LibVal("std", "ddof=1", <<Vec(e.val)>>),
     max |-> LibVal("amax", "", <<Vec(e.val)>>),
     median |-> LibVal("median", "", <<Vec(e.val)>>),
     min |-> LibVal("amin", "", <<Vec(e.val)>>)]

\* GroupStatistics.run, lines 579-594: one row per item of the data, appended
\* to the rows the results list holds already
GroupStatistics_run(o, clean) ==
    [Did(o, [i \in 1..Len(clean) |-> EvLib("describe", <<Vec(clean[i].val)>>, "ddof=1")])
       EXCEPT !.results = @ \o [i \in 1..Len(clean) |-> GroupStatistics_row(clean[i])]]

\* self._data of a GroupStatistics: the dict data_prep returned, as its keys
\* and its values in the order of the dict
DictData(clean) ==
    [list |-> TRUE, items |-> [i \in 1..Len(clean) |-> Vec(clean[i].val)],
     keys |-> [i \in 1..Len(clean) |-> clean[i].key]]
\* self._data.items()
GroupStatistics_items(o) ==
    [i \in 1..Len(o.data.items) |->
        [key |-> o.data.keys[i], val |-> o.data.items[i].val]]

\* lines 576-577: str(self) when display is set
GroupStatistics_report(ran) ==
    IF ran.display THEN GroupStatistics_output(ran) ELSE ran

\* GroupStatistics.logic, lines 571-577: the results list is emptied, then
\* run(), then str(self) when display is set
GroupStatistics_logic(o) ==
    GroupStatistics_report(GroupStatistics_run([o EXCEPT !.results = <<>>],
                                               GroupStatistics_items(o)))

\* lines 552-556, pairs being the dict of line 554 and prep what data_prep
\* returned for it
GroupStatistics_init(data, pairs, prep, display) ==
    LET o == Did([Analysis_init("GroupStatistics", DictData(prep.clean), 0, display)
                  EXCEPT !.trace = <<EvCtor("GroupStatistics", AsArgsOf(data), 0, display)>>],
                 <<EvPrep("GroupStatistics",
                          [i \in 1..Len(pairs) |-> Vec(pairs[i].val)])>>)
    IN  IF prep.err # "none"
        THEN Raised([o EXCEPT !.data = NoData], prep.err, <<>>)
        ELSE Returned(GroupStatistics_logic(o))

GroupStatistics_prepared(data, pairs, display) ==
    GroupStatistics_init(data, pairs, GroupStatistics_data_prep(pairs), display)

GroupStatistics(data, vectors, groups, display) ==
    GroupStatistics_prepared(data, GroupStatistics_dict(data, vectors, groups),
                             display)

---------------------------------------------------------------------------
(* analyze *)

\* results[key] on a results mapping
GetItemOk(o, key) == HasKey(o.results, key)

\* o after a nested constructor c ran inside it
After(o, c) == [o EXCEPT !.trace = @ \o c.trace, !.err = c.err]

\* lines 696-705: the last test of the group branch
analyze_final(xdata, norm_p, var_p, alpha) ==
    IF Gt(norm_p, alpha) /\ Gt(var_p, alpha)
    THEN IF Len(xdata) = 2 THEN "TTest" ELSE "Anova"
    ELSE IF Len(xdata) = 2 THEN "TTest" ELSE "Kruskal"

\* lines 669-706
analyze_group(xdata, vectors, groups, alpha, lib) ==
    LET o0 == Did(Analysis_init("analyze", NoData, alpha, TRUE),
                  <<EvPlot("GraphBoxplot", AsArgsOf(xdata))>>)
        o1 == After(o0, GroupStatistics(xdata, vectors, groups, TRUE))
        ev == EqualVariance(AsArgsOf(xdata), DefaultAlpha, TRUE, lib)
        o2 == After(o1, ev)
        nt == NormTest(AsArgsOf(xdata), alpha, FALSE, lib)
        o3 == After(o2, nt)
        which == analyze_final(xdata, nt.results[Key0], ev.results[Key0], alpha)
        last == CASE which = "TTest" ->
                       TTest(Vec(xdata[1]), Vec(xdata[2]), DefaultAlpha, TRUE, lib)
                  [] which = "Anova" ->
                       Anova(AsArgsOf(xdata), DefaultAlpha, TRUE, lib)
                  [] OTHER ->
                       Kruskal(AsArgsOf(xdata), DefaultAlpha, TRUE, lib)
    IN  IF o1.err # "none" THEN o1
        ELSE IF o2.err # "none" THEN o2
        ELSE IF ~GetItemOk(ev, Key0) THEN Raised(o2, "KeyError", <<>>)
        ELSE IF o3.err # "none" THEN o3
        ELSE IF ~GetItemOk(nt, Key0) THEN Raised(o3, "KeyError", <<>>)
        ELSE After(o3, last)

\* analyze_pair with the correlation dropped when the regression is significant
analyze_pair_stops(x, y, alpha, lib) ==
    LET xv == Vec(Vector(x))
        yv == Vec(Vector(y))
        o0 == Did(Analysis_init("analyze", NoData, alpha, TRUE),
                  <<EvPlot("GraphScatter", <<xv, yv>>)>>)
        lr == LinearRegression(xv, yv, DefaultAlpha, TRUE, lib)
        o1 == After(o0, lr)
    IN  IF o1.err # "none" \/ ~Gt(Test_p_value(lr), DefaultAlpha) THEN o1
        ELSE After(o1, Correlation(xv, yv, DefaultAlpha, TRUE, lib))

\* lines 708-734
analyze_pair(x, y, alpha, lib) ==
    LET xv == Vec(Vector(x))
        yv == Vec(Vector(y))
        o0 == Did(Analysis_init("analyze", NoData, alpha, TRUE),
                  <<EvPlot("GraphScatter", <<xv, yv>>)>>)
        o1 == After(o0, LinearRegression(xv, yv, DefaultAlpha, TRUE, lib))
    IN  IF o1.err # "none" THEN o1
        ELSE After(o1, Correlation(xv, yv, DefaultAlpha, TRUE, lib))

\* lines 736-754
analyze_single(x, alpha, lib) ==
    LET xv == Vec(Vector(x))
        o0 == Did(Analysis_init("analyze", NoData, alpha, TRUE),
                  <<EvPlot("GraphHisto", <<xv>>)>>)
        o1 == After(o0, VectorStatistics(xv, TRUE, TRUE))
    IN  IF o1.err # "none" THEN o1
        ELSE After(o1, NormTest(<<xv>>, alpha, TRUE, lib))

\* lines 755-756: return xdata, ydata
analyze_passthrough(x, y, alpha) ==
    [Analysis_init("analyze", NoData, alpha, TRUE)
       EXCEPT !.results = [returned |-> <<x, y>>]]

\* analyze with the pair test (line 709) made before the group test (line
\* 670): a group handed in with an iterable y is flattened into one sample,
\* and the routines of the pair branch answer with fixed p-values
analyze_pair_first(a, lib) ==
    IF a.xshape \in {"group", "dict"} /\ a.yshape = "vector"
    THEN analyze_pair(Flatten(AsArgsOf(a.group)), a.y, a.alpha,
                      [sh |-> EmptyDict, strict |-> lib.strict,
                       p |-> [r \in {"regress", "corr"} |-> DefaultAlpha]])
    ELSE IF a.xshape = "vector" /\ a.yshape = "vector"
    THEN analyze_pair(a.x, a.y, a.alpha, lib)
    ELSE IF a.xshape \in {"group", "dict"} /\ Len(a.group) >= 1
    THEN analyze_group(a.group, a.vectors, a.labels, a.alpha, lib)
    ELSE IF a.xshape # "scalar"
    THEN analyze_single(a.x, a.alpha, lib)
    ELSE analyze_passthrough(a.x, a.y, a.alpha)

\* analyze with the single-sample test made before the pair test
analyze_single_first(a, lib) ==
    IF a.xshape \in {"group", "dict"} /\ Len(a.group) >= 1
    THEN analyze_group(a.group, a.vectors, a.labels, a.alpha, lib)
    ELSE IF a.xshape # "scalar"
    THEN analyze_single(a.x, a.alpha, lib)
    ELSE IF a.yshape = "vector"
    THEN analyze_pair(a.x, a.y, a.alpha, lib)
    ELSE analyze_passthrough(a.x, a.y, a.alpha)

\* a is the shape of the arguments: xshape is "group", "dict", "vector" or
\* "scalar"; yshape is "none", "vector" or "scalar"
analyze(a, lib) ==
    IF a.xshape \in {"group", "dict"} /\ Len(a.group) >= 1
    THEN analyze_group(a.group, a.vectors, a.labels, a.alpha, lib)
    ELSE IF a.xshape # "scalar" /\ a.yshape = "vector"
    THEN analyze_pair(a.x, a.y, a.alpha, lib)
    ELSE IF a.xshape # "scalar"
    THEN analyze_single(a.x, a.alpha, lib)
    ELSE analyze_passthrough(a.x, a.y, a.alpha)

---------------------------------------------------------------------------
(* Inputs *)

\* elements of the raw samples of the one- and two-sample entry points
XElems == {1, NaN, STR}
YElems == {2, NaN}
XSamples == RawSamples(XElems, MaxLen)
YSamples == RawSamples(YElems, MaxLen)

\* members of a group input: one of each cleaning outcome
GroupMembers == { <<>>, <<NaN, STR>>, <<1, 1>>,
                  <<1, 1, 1>>, <<2, 2, 2>>, <<1, NaN, 2, 2>> }
Groups == UNION {[1..k -> GroupMembers] : k \in 1..MaxGroups}

\* the keys of a dict of k members: one distinct label per member, not in
\* sorted order
DictKeys(k) == [i \in 1..k |-> 10 + (k - i)]
\* the groups argument: None, one distinct label per member, one label too
\* few, or the first label once more in the last place
Labelings(k) ==
    {<<>>, DictKeys(k), SubSeq(DictKeys(k), 1, k - 1),
     [DictKeys(k) EXCEPT ![k] = DictKeys(k)[1]]}

\* which members of a group of k are Vector objects: none, all, or the last
VectorChoices(k) == {{}, 1..k, {k}}

Range(f) == {f[i] : i \in DOMAIN f}

\* the library as the call meets it: a p-value for every array shapiro can
\* be handed and for every routine family the call can enter, and which of
\* its two behaviours shapiro has when one of the arrays is below 3 points
Libs(arrays, roles) ==
    [sh : [{a \in arrays : Len(a) >= 3} -> PValues], p : [roles -> PValues],
     strict : IF \E a \in arrays : Len(a) < 3 THEN BOOLEAN ELSE {FALSE}]
Cleaned(samples) == {drop_nan(Vector(s)) : s \in samples}
Pooled(x, y, min_size) ==
    LET d == Comparison_data_prep(<<Vec(x), Vec(y)>>, min_size)
    IN  {drop_nan(concatenate(d[1].val, d[2].val))}

---------------------------------------------------------------------------
(* Actions: one per public entry point *)

Idle == call.op = "none"
\* the calls of the public run() and logic() made so far
Runs == {i \in DOMAIN trace : trace[i].ev = "run"}
Logics == {i \in DOMAIN trace : trace[i].ev = "logic"}
\* the calls of run() made since the results list was last emptied
RunsSinceLogic == {i \in Runs : \A j \in Logics : j < i}

Finish(c, o) ==
    /\ call' = c
    /\ obj' = [o EXCEPT !.trace = <<>>]
    /\ trace' = o.trace
    /\ err' = o.err

CallBase(op, alpha, display) ==
    [op |-> op, xshape |-> "none", yshape |-> "none", x |-> <<>>, y |-> <<>>,
     group |-> <<>>, vectors |-> {}, labels |-> <<>>, mu |-> 0, flag |-> FALSE,
     alpha |-> alpha, display |-> display]

NormTestCall ==
    /\ Idle
    /\ \E g \in Groups, alpha \in Alphas, display \in BOOLEAN :
       \E lib \in Libs(Cleaned(Range(g)), {}) :
          Finish([CallBase("NormTest", alpha, display) EXCEPT
                     !.xshape = "group", !.group = g],
                 NormTest(AsArgsOf(g), alpha, display, lib))

\* NormTest on one argument that is not iterable; of the characters of a
\* string nothing is left for shapiro
NormTestScalarCall ==
    /\ Idle
    /\ \E v \in Scalars, alpha \in Alphas, display \in BOOLEAN :
       \E lib \in Libs({<<>>}, {}) :
          Finish([CallBase("NormTest", alpha, display) EXCEPT
                     !.xshape = "scalar", !.x = <<v>>],
                 NormTest(<<Scal(v)>>, alpha, display, lib))

KSTestCall ==
    /\ Idle
    /\ \E x \in XSamples, parms \in BOOLEAN, alpha \in Alphas, display \in BOOLEAN :
       \E lib \in Libs({}, {"kstest"}) :
          Finish([CallBase("KSTest", alpha, display) EXCEPT
                     !.xshape = "vector", !.x = x, !.flag = parms],
                 KSTest(Vec(x), parms, alpha, display, lib))

TTestOneCall ==
    /\ Idle
    /\ \E x \in XSamples, mu \in Mus \cup {STR}, alpha \in Alphas,
          display \in BOOLEAN :
       \E lib \in Libs(Cleaned({x}), {"var", "means"}) :
          Finish([CallBase("TTest", alpha, display) EXCEPT
                     !.xshape = "vector", !.x = x, !.yshape = "scalar", !.mu = mu],
                 TTest(Vec(x), Scal(mu), alpha, display, lib))

TTestTwoCall ==
    /\ Idle
    /\ \E x \in XSamples, y \in GroupMembers, alpha \in Alphas, display \in BOOLEAN :
       \E lib \in Libs(Cleaned({x, y}), {"var", "means"}) :
          Finish([CallBase("TTest", alpha, display) EXCEPT
                     !.xshape = "vector", !.x = x, !.yshape = "vector", !.y = y],
                 TTest(Vec(x), Vec(y), alpha, display, lib))

LinearRegressionCall ==
    /\ Idle
    /\ \E x \in XSamples, y \in YSamples, alpha \in Alphas, display \in BOOLEAN :
       \E lib \in Libs({}, {"regress"}) :
          Finish([CallBase("LinearRegression", alpha, display) EXCEPT
                     !.xshape = "vector", !.x = x, !.yshape = "vector", !.y = y],
                 LinearRegression(Vec(x), Vec(y), alpha, display, lib))

CorrelationCall ==
    /\ Idle
    /\ \E x \in XSamples, y \in YSamples, alpha \in Alphas, display \in BOOLEAN :
       \E lib \in Libs(Pooled(x, y, Comparison_min_size), {"corr"}) :
          Finish([CallBase("Correlation", alpha, display) EXCEPT
                     !.xshape = "vector", !.x = x, !.yshape = "vector", !.y = y],
                 Correlation(Vec(x), Vec(y), alpha, display, lib))

AnovaCall ==
    /\ Idle
    /\ \E g \in Groups, alpha \in Alphas, display \in BOOLEAN :
       \E lib \in Libs({}, {"means"}) :
          Finish([CallBase("Anova", alpha, display) EXCEPT
                     !.xshape = "group", !.group = g],
                 Anova(AsArgsOf(g), alpha, display, lib))

\* Anova on one argument that is not iterable
AnovaScalarCall ==
    /\ Idle
    /\ \E v \in Scalars, alpha \in Alphas, display \in BOOLEAN :
       \E lib \in Libs({}, {"means"}) :
          Finish([CallBase("Anova", alpha, display) EXCEPT
                     !.xshape = "scalar", !.x = <<v>>],
                 Anova(<<Scal(v)>>, alpha, display, lib))

KruskalCall ==
    /\ Idle
    /\ \E g \in Groups, alpha \in Alphas, display \in BOOLEAN :
       \E lib \in Libs({}, {"means"}) :
          Finish([CallBase("Kruskal", alpha, display) EXCEPT
                     !.xshape = "group", !.group = g],
                 Kruskal(AsArgsOf(g), alpha, display, lib))

EqualVarianceCall ==
    /\ Idle
    /\ \E g \in Groups, alpha \in Alphas, display \in BOOLEAN :
       \E lib \in Libs(Cleaned(Range(g)), {"var"}) :
          Finish([CallBase("EqualVariance", alpha, display) EXCEPT
                     !.xshape = "group", !.group = g],
                 EqualVariance(AsArgsOf(g), alpha, display, lib))

VectorStatisticsCall ==
    /\ Idle
    /\ \E x \in XSamples, sample \in BOOLEAN, display \in BOOLEAN :
          Finish([CallBase("VectorStatistics", 0, display) EXCEPT
                     !.xshape = "vector", !.x = x, !.flag = sample],
                 VectorStatistics(Vec(x), sample, display))

GroupStatisticsCall ==
    /\ Idle
    /\ \E g \in Groups, display \in BOOLEAN :
       \E l \in Labelings(Len(g)), v \in VectorChoices(Len(g)) :
          Finish([CallBase("GroupStatistics", 0, display) EXCEPT
                     !.xshape = "group", !.group = g, !.vectors = v,
                     !.labels = l],
                 GroupStatistics(g, v, l, display))

\* the public run() on a finished GroupStatistics
GroupStatisticsRun ==
    /\ call.op = "GroupStatistics"
    /\ err = "none"
    /\ Cardinality(Runs \cup Logics) < MaxRuns
    /\ LET r == GroupStatistics_run(obj, GroupStatistics_items(obj))
       IN  /\ obj' = [r EXCEPT !.trace = <<>>]
           /\ trace' = trace \o <<EvRun("GroupStatistics")>> \o r.trace
           /\ err' = r.err
    /\ UNCHANGED call

\* the public logic() on a finished GroupStatistics
GroupStatisticsLogic ==
    /\ call.op = "GroupStatistics"
    /\ err = "none"
    /\ Cardinality(Runs \cup Logics) < MaxRuns
    /\ LET r == GroupStatistics_logic(obj)
       IN  /\ obj' = [r EXCEPT !.trace = <<>>]
           /\ trace' = trace \o <<EvLogic("GroupStatistics")>> \o r.trace
           /\ err' = r.err
    /\ UNCHANGED call

\* the ydata handed to analyze next to a group: None, or a sample
AnalyzeGroupY == <<2, 2, 2>>
\* how a group of k members is handed to analyze: a list of lists or of
\* Vectors without labels, a list of lists with one label too few, or a dict,
\* all without ydata; and a list of lists and a dict with an iterable ydata
AnalyzeGroupForms(k) ==
    {[shape |-> "group", labels |-> <<>>, vectors |-> v, yshape |-> "none",
      y |-> <<>>] : v \in VectorChoices(k)}
    \cup {[shape |-> "group", labels |-> SubSeq(DictKeys(k), 1, k - 1),
           vectors |-> {}, yshape |-> "none", y |-> <<>>],
          [shape |-> "dict", labels |-> DictKeys(k), vectors |-> {},
           yshape |-> "none", y |-> <<>>],
          [shape |-> "group", labels |-> <<>>, vectors |-> {},
           yshape |-> "vector", y |-> AnalyzeGroupY],
          [shape |-> "dict", labels |-> DictKeys(k), vectors |-> {},
           yshape |-> "vector", y |-> AnalyzeGroupY]}

\* the library answers for shapiro and for the variance routines only: the
\* call ends at the subscript of line 692, before the routine of a final
\* test could be entered
AnalyzeGroupCall ==
    /\ Idle
    /\ \E g \in Groups, alpha \in Alphas :
       \E f \in AnalyzeGroupForms(Len(g)) :
       \E lib \in Libs(Cleaned(Range(g)), {"var"}) :
          Finish([CallBase("analyze", alpha, TRUE) EXCEPT
                     !.xshape = f.shape, !.group = g, !.vectors = f.vectors,
                     !.labels = f.labels, !.yshape = f.yshape, !.y = f.y],
                 analyze([xshape |-> f.shape, yshape |-> f.yshape, group |-> g,
                          vectors |-> f.vectors, labels |-> f.labels,
                          x |-> <<>>, y |-> f.y, alpha |-> alpha],
                         lib))

AnalyzePairCall ==
    /\ Idle
    /\ \E x \in XSamples, y \in YSamples, alpha \in Alphas :
       \E lib \in Libs(Pooled(x, y, Comparison_min_size), {"regress", "corr"}) :
          Finish([CallBase("analyze", alpha, TRUE) EXCEPT
                     !.xshape = "vector", !.x = x, !.yshape = "vector", !.y = y],
                 analyze([xshape |-> "vector", yshape |-> "vector", group |-> <<>>,
                          vectors |-> {}, labels |-> <<>>, x |-> x, y |-> y, alpha |-> alpha],
                         lib))

AnalyzeSingleCall ==
    /\ Idle
    /\ \E x \in GroupMembers, yshape \in {"none", "scalar"}, alpha \in Alphas :
       \E lib \in Libs(Cleaned({x}), {}) :
          Finish([CallBase("analyze", alpha, TRUE) EXCEPT
                     !.xshape = "vector", !.x = x, !.yshape = yshape,
                     !.y = IF yshape = "scalar" THEN <<3>> ELSE <<>>],
                 analyze([xshape |-> "vector", yshape |-> yshape, group |-> <<>>,
                          vectors |-> {}, labels |-> <<>>, x |-> x,
                          y |-> IF yshape = "scalar" THEN <<3>> ELSE <<>>,
                          alpha |-> alpha],
                         lib))

AnalyzeScalarCall ==
    /\ Idle
    /\ \E x \in Mus, yshape \in {"none", "scalar", "vector"}, alpha \in Alphas :
       \E y \in IF yshape = "vector" THEN GroupMembers
                ELSE IF yshape = "scalar" THEN {<<m>> : m \in Mus} ELSE {<<>>} :
       \E lib \in Libs({}, {}) :
          Finish([CallBase("analyze", alpha, TRUE) EXCEPT
                     !.xshape = "scalar", !.x = <<x>>, !.yshape = yshape, !.y = y],
                 analyze([xshape |-> "scalar", yshape |-> yshape, group |-> <<>>,
                          vectors |-> {}, labels |-> <<>>, x |-> <<x>>, y |-> y, alpha |-> alpha],
                         lib))

\* the base class Test on one argument: a sample, or a value that is not
\* iterable
TestCall ==
    /\ Idle
    /\ \E a \in {Vec(x) : x \in GroupMembers} \cup {Scal(v) : v \in Scalars},
          alpha \in Alphas, display \in BOOLEAN :
          Finish([CallBase("Test", alpha, display) EXCEPT
                     !.xshape = IF is_iterable(a) THEN "vector" ELSE "scalar",
                     !.x = a.val],
                 Test(<<a>>, alpha, display))

\* the classes whose objects have the statistic and p_value accessors
HasAccessors ==
    /\ call.op \in {"Test", "NormTest", "KSTest", "TTest", "LinearRegression",
                    "Correlation", "Anova", "Kruskal", "EqualVariance"}
    /\ err = "none"
WasRead(accessor) ==
    \E i \in DOMAIN trace : trace[i].ev = "read" /\ trace[i].name = accessor

\* the caller reads  obj.statistic  of the object it constructed
ReadStatistic ==
    /\ HasAccessors
    /\ ~WasRead("statistic")
    /\ trace' = Append(trace, EvRead("statistic", Test_statistic(obj)))
    /\ UNCHANGED <<call, obj, err>>

\* the caller reads  obj.p_value  of the object it constructed
ReadPValue ==
    /\ HasAccessors
    /\ ~WasRead("p_value")
    /\ trace' = Append(trace, EvRead("p_value", Test_p_value(obj)))
    /\ UNCHANGED <<call, obj, err>>

Init ==
    /\ call = CallBase("none", DefaultAlpha, FALSE)
    /\ obj = Analysis_init("none", NoData, DefaultAlpha, FALSE)
    /\ trace = <<>>
    /\ err = "none"

NextTest ==
    \/ NormTestCall
    \/ NormTestScalarCall
    \/ KSTestCall
    \/ TTestOneCall
    \/ TTestTwoCall
    \/ VectorStatisticsCall

NextComparison ==
    \/ LinearRegressionCall
    \/ CorrelationCall

NextGroup ==
    \/ EqualVarianceCall
    \/ AnovaCall
    \/ AnovaScalarCall
    \/ KruskalCall
    \/ GroupStatisticsCall
    \/ GroupStatisticsRun
    \/ GroupStatisticsLogic

NextAnalyze ==
    \/ AnalyzeGroupCall
    \/ AnalyzePairCall
    \/ AnalyzeSingleCall
    \/ AnalyzeScalarCall

\* the constructors of the classes
NextConstructor == NextTest \/ NextComparison \/ NextGroup \/ TestCall

NextCall == NextConstructor \/ NextAnalyze

NextRead ==
    \/ ReadStatistic
    \/ ReadPValue

Next == NextCall \/ NextRead

\* every entry point, and the accessors of what it built
Spec == Init /\ [][Next]_vars
\* every entry point
SpecCall == Init /\ [][NextCall]_vars
\* every constructor called directly
SpecConstructors == Init /\ [][NextConstructor]_vars
\* the base class and the group tests, and their accessors
SpecAccessors == Init /\ [][TestCall \/ NextGroup \/ NextRead]_vars
\* the one-sample tests and TTest
SpecTest == Init /\ [][NextTest]_vars
\* the paired tests
SpecComparison == Init /\ [][NextComparison]_vars
\* the group tests
SpecGroup == Init /\ [][NextGroup]_vars
\* the dispatcher
SpecAnalyze == Init /\ [][NextAnalyze]_vars

---------------------------------------------------------------------------
(* Reading the trace *)

Ctors(cls) == {i \in DOMAIN trace : trace[i].ev = "ctor" /\ trace[i].name = cls}
Rets(cls)  == {i \in DOMAIN trace : trace[i].ev = "ret" /\ trace[i].name = cls}
LibCalls(fns) == {i \in DOMAIN trace : trace[i].ev = "lib" /\ trace[i].name \in fns}
AllLibCalls == {i \in DOMAIN trace : trace[i].ev = "lib"}
Plots(name) == {i \in DOMAIN trace : trace[i].ev = "plot" /\ trace[i].name = name}
SetMax(S) == CHOOSE m \in S : \A n \in S : n <= m
SetMin(S) == CHOOSE m \in S : \A n \in S : m <= n

\* what cleaning makes of one raw sample, and of a pair
CleanOf(s) == drop_nan(Vector(s))
Survives(s, min_size) == Len(CleanOf(s)) > min_size
CleanPair == drop_nan_intersect(Vector(call.x), Vector(call.y))

PairedCall == call.op \in {"LinearRegression", "Correlation"}
\* a pair the cleaning pipeline accepts
ValidPair ==
    /\ Len(call.x) = Len(call.y)
    /\ Len(CleanPair[1]) > Comparison_min_size

\* a group input all of whose members pass cleaning
ValidGroup ==
    /\ Len(call.group) >= 2
    /\ \A i \in 1..Len(call.group) : Survives(call.group[i], Test_min_size)

---------------------------------------------------------------------------
(* Claims *)

\* C1: for a group input, analyze renders the box plot, computes
\* GroupStatistics, EqualVariance and NormTest, and then runs exactly one
\* final test: TTest on the two samples for 2 groups; for 3 or more, Anova
\* when both the NormTest and the EqualVariance p-value exceed alpha and
\* Kruskal otherwise.
C1_GroupBranchRunsOneFinalTest ==
    (call.op = "analyze" /\ call.xshape \in {"group", "dict"} /\ ValidGroup) =>
        LET finals == Ctors("TTest") \cup Ctors("Anova") \cup Ctors("Kruskal")
            evr    == Rets("EqualVariance")
        IN  /\ Plots("GraphBoxplot") # {}
            /\ Ctors("GroupStatistics") # {}
            /\ evr # {}
            /\ Cardinality(finals) = 1
            /\ \A f \in finals :
                 LET ntr == {n \in Rets("NormTest") : n < f}
                 IN  /\ ntr # {}
                     /\ trace[f].name =
                          IF Len(call.group) = 2 THEN "TTest"
                          ELSE IF /\ Gt(trace[SetMax(ntr)].p, call.alpha)
                                  /\ Gt(trace[SetMin(evr)].p, call.alpha)
                               THEN "Anova" ELSE "Kruskal"
                     /\ trace[f].name = "TTest" =>
                          trace[f].args = <<Vec(call.group[1]), Vec(call.group[2])>>

\* C2: TTest(x, mu) with a scalar mu, 0 included, runs the one-sample t-test
\* and constructs no EqualVariance; TTest(x, y) with an iterable y constructs
\* an EqualVariance before any two-sample t-test routine.
C2_ScalarTargetIsOneSample ==
    (call.op = "TTest" /\ Survives(call.x, Test_min_size)) =>
        IF call.yshape = "scalar"
        THEN LibCalls({"ttest_1samp"}) # {} /\ Ctors("EqualVariance") = {}
        ELSE \E c \in Ctors("EqualVariance") :
                \A l \in LibCalls({"ttest_ind"}) : c < l

\* C3: LinearRegression(x, y) hands linregress the cleaned x as predictor and
\* the cleaned y as response, and its slope, intercept, r squared, standard
\* error and p-value are what linregress returns for that pair.
C3_RegressionOfXonY ==
    (call.op = "LinearRegression" /\ ValidPair) =>
        LET a == <<Vec(CleanPair[1]), Vec(CleanPair[2])>>
        IN  /\ err = "none"
            /\ \E l \in LibCalls({"linregress"}) : trace[l].args = a
            /\ \A k \in {"slope", "intercept", "r2", "std_err"} :
                 /\ HasKey(obj.results, k)
                 /\ obj.results[k] = LibVal("linregress", k, a)
            /\ HasKey(obj.results, "p_value")

\* C4: a paired test on two samples of different lengths fails with
\* UnequalVectorLengthError before any statistic is computed.
C4_UnequalLengthsRaise ==
    (PairedCall /\ Len(call.x) # Len(call.y)) =>
        err = "UnequalVectorLengthError" /\ AllLibCalls = {}

\* C5: cleaning a pair whose cleaned length is at most min_size (3 for the
\* paired tests) fails with MinimumSizeError; a longer one succeeds and keeps
\* every cleaned element.
C5_MinimumSizeRaises ==
    (PairedCall /\ Len(call.x) = Len(call.y) /\ Len(CleanPair[1]) > 0) =>
        IF Len(CleanPair[1]) <= Comparison_min_size
        THEN err = "MinimumSizeError" /\ AllLibCalls = {}
        ELSE /\ err = "none"
             /\ obj.data = ListData(<<Vec(CleanPair[1]), Vec(CleanPair[2])>>)

\* C6: a test given a required sample with no element left after coercion and
\* nan-dropping fails with EmptyVectorError and computes no statistic.
C6_EmptyVectorRaises ==
    (/\ PairedCall
     /\ Len(call.x) = Len(call.y)
     /\ Len(call.x) > Comparison_min_size
     /\ (CleanOf(call.x) = <<>> \/ CleanOf(call.y) = <<>>)) =>
        err = "EmptyVectorError" /\ AllLibCalls = {}

\* C7: once run() has completed, the results mapping of a hypothesis test
\* holds both the key 'p_value' and the key 'statistic'.
C7_ResultsHoldStatistic ==
    (/\ call.op \in {"EqualVariance", "Anova", "Kruskal"}
     /\ ValidGroup
     /\ err = "none") =>
        HasKey(obj.results, "p_value") /\ HasKey(obj.results, "statistic")

\* C8: a two-sample TTest(x, y) holds both cleaned samples as its data, runs
\* EqualVariance on that pair with display off, and computes the t-test on
\* the pair: pooled with tag 't_test' when the EqualVariance p-value exceeds
\* alpha, Welch's with tag 'welch_t' otherwise.
C8_TwoSampleUsesBothSamples ==
    (/\ call.op = "TTest"
     /\ call.yshape = "vector"
     /\ Survives(call.x, Test_min_size)
     /\ Survives(call.y, Test_min_size)) =>
        LET pair == <<Vec(CleanOf(call.x)), Vec(CleanOf(call.y))>>
        IN  /\ obj.data = ListData(pair)
            /\ \E c \in Ctors("EqualVariance") :
                 trace[c].args = pair /\ ~trace[c].display
            /\ \E r \in Rets("EqualVariance") :
               \E l \in LibCalls({"ttest_ind"}) :
                 /\ r < l
                 /\ trace[l].args = pair
                 /\ trace[l].tag = IF Gt(trace[r].p, call.alpha)
                                   THEN "equal_var=True" ELSE "equal_var=False"
                 /\ HasKey(obj.results, "test")
                 /\ obj.results["test"] = IF Gt(trace[r].p, call.alpha)
                                          THEN "t_test" ELSE "welch_t"

\* C9: every EqualVariance that completes invoked exactly one of Bartlett and
\* Levene: Bartlett when the p-value of its NormTest on the group exceeds
\* alpha, Levene otherwise, and the 'test' tag names the routine invoked.
C9_ExactlyOneVarianceRoutine ==
    /\ \A r \in Rets("EqualVariance") :
         LET c        == SetMax({i \in Ctors("EqualVariance") : i < r})
             routines == {l \in LibCalls({"bartlett", "levene"}) : c < l /\ l < r}
             norms    == {n \in Rets("NormTest") : c < n /\ n < r}
         IN  /\ Cardinality(routines) = 1
             /\ Cardinality(norms) = 1
             /\ \A l \in routines, n \in norms :
                  /\ n < l
                  /\ trace[l].name = "bartlett" <=> Gt(trace[n].p, trace[c].alpha)
                  /\ trace[r].tag = IF trace[l].name = "bartlett"
                                    THEN "Bartlett" ELSE "Levene"
    /\ (call.op = "EqualVariance" /\ err = "none") =>
         /\ Rets("EqualVariance") # {}
         /\ HasKey(obj.results, "test")
         /\ obj.results["test"] = trace[SetMax(Rets("EqualVariance"))].tag

\* an EqualVariance on a normal group completed and chose Bartlett
C9_Witness ==
    /\ call.op = "EqualVariance"
    /\ err = "none"
    /\ HasKey(obj.results, "test")
    /\ obj.results["test"] = "Bartlett"
    /\ LibCalls({"bartlett"}) # {}

\* C10: Correlation(x, y) runs NormTest, display off and with its own alpha,
\* on the concatenation of the two samples it holds (the nan-intersected
\* pair), and uses Pearson when that p-value exceeds alpha and Spearman
\* otherwise; the 'type' tag names the routine used.
C10_CorrelationVariant ==
    (call.op = "Correlation" /\ err = "none") =>
        LET xd == obj.data.items[1]
            yd == obj.data.items[2]
            nc == Ctors("NormTest")
            nr == Rets("NormTest")
            rs == LibCalls({"pearsonr", "spearmanr"})
        IN  /\ ValidPair => <<xd.val, yd.val>> = CleanPair
            /\ Cardinality(nc) = 1
            /\ \A c \in nc :
                 /\ trace[c].args = <<Vec(concatenate(xd.val, yd.val))>>
                 /\ ~trace[c].display
                 /\ trace[c].alpha = call.alpha
            /\ Cardinality(nr) = 1
            /\ Cardinality(rs) = 1
            /\ \A l \in rs, n \in nr :
                 /\ n < l
                 /\ trace[l].name = "pearsonr" <=> Gt(trace[n].p, call.alpha)
                 /\ trace[l].args = <<xd, yd>>
                 /\ HasKey(obj.results, "type")
                 /\ obj.results["type"] = IF trace[l].name = "pearsonr"
                                          THEN "pearson" ELSE "spearman"

\* a Correlation of a valid pair chose Pearson
C10_Witness ==
    /\ call.op = "Correlation"
    /\ err = "none"
    /\ ValidPair
    /\ HasKey(obj.results, "type")
    /\ obj.results["type"] = "pearson"
    /\ LibCalls({"pearsonr"}) # {}

\* every plot and every constructor the call made
AllPlots == {i \in DOMAIN trace : trace[i].ev = "plot"}
CtorNames == {trace[i].name : i \in {j \in DOMAIN trace : trace[j].ev = "ctor"}}
ReturnsValue == HasKey(obj.results, "returned")

\* C11: an analyze call takes exactly one of the four branches, in the
\* priority order group, pair, single, pass-through: a group x renders only
\* the box plot and constructs GroupStatistics next, whether or not an
\* iterable y came with it; a single iterable x renders only the histogram
\* and constructs only VectorStatistics and then NormTest; a non-iterable x
\* constructs no plot and no test and returns (xdata, ydata) unchanged; the
\* three analysing branches return no value.
C11_OneBranchPerCall ==
    call.op = "analyze" =>
        CASE call.xshape \in {"group", "dict"} ->
               /\ AllPlots = Plots("GraphBoxplot")
               /\ AllPlots = {1}
               /\ Ctors("GroupStatistics") = {2}
               /\ CtorNames \subseteq {"GroupStatistics", "EqualVariance",
                                       "NormTest", "TTest", "Anova", "Kruskal"}
               /\ ~ReturnsValue
          [] call.xshape = "vector" /\ call.yshape = "vector" ->
               /\ AllPlots = Plots("GraphScatter")
               /\ AllPlots = {1}
               /\ CtorNames \subseteq {"LinearRegression", "Correlation", "NormTest"}
               /\ ~ReturnsValue
          [] call.xshape = "vector" /\ call.yshape # "vector" ->
               /\ AllPlots = Plots("GraphHisto")
               /\ AllPlots = {1}
               /\ CtorNames \subseteq {"VectorStatistics", "NormTest"}
               /\ Cardinality(Ctors("VectorStatistics")) = 1
               /\ Cardinality(Ctors("NormTest")) <= 1
               /\ \A v \in Ctors("VectorStatistics"), n \in Ctors("NormTest") : v < n
               /\ err = "none" => Ctors("NormTest") # {}
               /\ ~ReturnsValue
          [] OTHER ->
               /\ trace = <<>>
               /\ err = "none"
               /\ ReturnsValue
               /\ obj.results["returned"] = <<call.x, call.y>>

\* a group handed in with an iterable y took the group branch, not the pair
\* branch
C11_WitnessGroupOverPair ==
    /\ call.op = "analyze"
    /\ call.xshape \in {"group", "dict"}
    /\ call.yshape = "vector"
    /\ call.y = AnalyzeGroupY
    /\ Plots("GraphBoxplot") = {1}
    /\ Plots("GraphScatter") = {}
    /\ Ctors("GroupStatistics") = {2}
    /\ Rets("GroupStatistics") # {}
    /\ Ctors("EqualVariance") # {}
    /\ Ctors("LinearRegression") = {}

\* a single sample went through the histogram branch to its NormTest
C11_Witness ==
    /\ call.op = "analyze"
    /\ call.xshape = "vector"
    /\ call.yshape = "none"
    /\ err = "none"
    /\ Plots("GraphHisto") # {}
    /\ Rets("NormTest") # {}

\* an input that is not iterable came back unchanged
C11_WitnessPassThrough ==
    /\ call.op = "analyze"
    /\ call.xshape = "scalar"
    /\ call.yshape = "vector"
    /\ ReturnsValue

\* the pair as analyze hands it on: both inputs converted to Vectors
AnalyzePair == <<Vec(Vector(call.x)), Vec(Vector(call.y))>>
AnalyzePairCalled ==
    call.op = "analyze" /\ call.xshape = "vector" /\ call.yshape = "vector"

\* C12: when x and y are both iterable and x is not a group, analyze renders
\* the scatter plot first and then constructs LinearRegression and, after it
\* has returned, Correlation, both on the same (x, y) pair, whatever the
\* p-value of either test.  Correlation returns too, unless the pair failed
\* cleaning and the normality routine raised on what was left of it.
C12_PairRunsRegressionThenCorrelation ==
    AnalyzePairCalled =>
        /\ Plots("GraphScatter") = {1}
        /\ trace[1].args = AnalyzePair
        /\ Cardinality(Ctors("LinearRegression")) = 1
        /\ Cardinality(Ctors("Correlation")) = 1
        /\ \A l \in Ctors("LinearRegression"), c \in Ctors("Correlation") :
             /\ 1 < l
             /\ l < c
             /\ trace[l].args = AnalyzePair
             /\ trace[c].args = AnalyzePair
             /\ \E r \in Rets("LinearRegression") : l < r /\ r < c
        /\ err \in {"none", "ValueError"}
        /\ (err = "none") = (Rets("Correlation") # {})
        /\ ValidPair => err = "none"

\* a valid pair whose regression was significant and whose correlation was
\* not: both were still constructed
C12_Witness ==
    /\ AnalyzePairCalled
    /\ ValidPair
    /\ \E r \in Rets("LinearRegression") : trace[r].p = 1
    /\ \E r \in Rets("Correlation") : trace[r].p = 9

\* the members of the group input that are still a sample after cleaning, by
\* position, and the label each was given
SurvivingMembers ==
    SelectSeq([i \in 1..Len(call.group) |-> i],
              LAMBDA i : Len(CleanOf(call.group[i])) >= GroupStatistics_min_size)
\* the label supplied for member i; 0 when the labels run out before it
LabelOf(i) ==
    IF call.labels = <<>> THEN i
    ELSE IF i <= Len(call.labels) THEN call.labels[i] ELSE 0

\* C13: GroupStatistics produces exactly one result row per group that
\* survives cleaning, in the order the groups were supplied (labels 1, 2, 3,
\* ... when none are given), and each row pairs the label of its group with
\* the count, mean, std, min, median and max of that group's cleaned data.
C13_OneRowPerSurvivingGroup ==
    call.op = "GroupStatistics" =>
        /\ err = "none"
        /\ Len(obj.results) = Len(SurvivingMembers)
        /\ \A n \in 1..Len(SurvivingMembers) :
             LET i == SurvivingMembers[n]
                 a == <<Vec(CleanOf(call.group[i]))>>
             IN  obj.results[n] =
                   [group |-> LabelOf(i), count |-> Len(CleanOf(call.group[i])),
                    mean |-> LibVal("mean", "", a),
                    std |-> LibVal("std", "ddof=1", a),
                    max |-> LibVal("amax", "", a),
                    median |-> LibVal("median", "", a),
                    min |-> LibVal("amin", "", a)]

\* the same for the groups of python lists none of whose non-empty members
\* is all nan, with no labels or one distinct label per member, as the
\* constructor and every later logic() leave them
C13_RowsOfUsableGroups ==
    (/\ call.op = "GroupStatistics"
     /\ call.vectors = {}
     /\ call.labels \in {<<>>, DictKeys(Len(call.group))}
     /\ RunsSinceLogic = {}
     /\ \A i \in 1..Len(call.group) :
          call.group[i] = <<>> \/ CleanOf(call.group[i]) # <<>>) =>
        C13_OneRowPerSurvivingGroup

\* the routine whose value run() of the called test stores has been invoked
OwnRoutines ==
    CASE call.op = "NormTest" -> {"shapiro"}
      [] call.op = "KSTest"   -> {"kstest"}
      [] call.op = "TTest"    -> {"ttest_1samp", "ttest_ind"}
      [] OTHER                -> {}
RunCompleted == LibCalls(OwnRoutines) # {}
OwnOutputs ==
    {i \in DOMAIN trace : trace[i].ev = "output" /\ trace[i].name = call.op}

\* every sample of the call passes the cleaning of the Test base class
CleaningSucceeded ==
    IF call.xshape = "group"
    THEN \A i \in 1..Len(call.group) : Survives(call.group[i], Test_min_size)
    ELSE Survives(call.x, Test_min_size)

\* C14: whenever cleaning and run() of a test succeed, its constructor ends
\* with a populated results mapping; with display enabled output() produces
\* the report without raising, and with display off output() is not invoked.
C14_SucceedingTestReports ==
    (/\ call.op \in {"NormTest", "KSTest", "TTest"}
     /\ CleaningSucceeded
     /\ RunCompleted) =>
        /\ HasKey(obj.results, "p_value")
        /\ call.display => (err = "none" /\ Cardinality(OwnOutputs) = 1)
        /\ ~call.display => OwnOutputs = {}

\* the same for the tests other than TTest
C14_ReportsOtherThanTTest ==
    call.op # "TTest" => C14_SucceedingTestReports

TestClasses ==
    {"Test", "NormTest", "KSTest", "TTest", "LinearRegression", "Correlation",
     "Anova", "Kruskal", "EqualVariance"}
TestOutputs ==
    {i \in DOMAIN trace : trace[i].ev = "output" /\ trace[i].name \in TestClasses}
ResultKeys ==
    {"statistic", "p_value", "test", "type", "t_value", "r_value", "f_value",
     "h_value", "count", "slope", "intercept", "r2", "std_err"}

\* C15: the hypothesis sentence of every report is chosen by comparing the
\* p_value the test holds when output() runs with its alpha: the null text
\* when p_value > alpha, the alternate text otherwise, p_value = alpha
\* included; the choice is not stored in the results mapping.
C15_HypothesisByPValue ==
    /\ \A i \in TestOutputs :
         LET c == SetMax({j \in Ctors(trace[i].name) : j < i})
         IN  /\ i + 1 \in Rets(trace[i].name)
             /\ trace[i].tag = IF trace[i + 1].p # NaN /\ trace[i + 1].p > trace[c].alpha
                               THEN "h0" ELSE "ha"
    /\ (call.op \in TestClasses /\ err = "none") =>
         /\ DOMAIN obj.results \subseteq ResultKeys
         /\ \A i \in OwnOutputs :
              trace[i].tag = IF /\ HasKey(obj.results, "p_value")
                                /\ obj.results["p_value"] > call.alpha
                             THEN "h0" ELSE "ha"

\* a report was built for a test whose p_value equals its alpha: alternate text
C15_Witness ==
    /\ call.op \in TestClasses
    /\ call.display
    /\ err = "none"
    /\ HasKey(obj.results, "p_value")
    /\ obj.results["p_value"] = call.alpha
    /\ \E i \in OwnOutputs : trace[i].tag = "ha"

\* this step is a read of the accessor a
ReadStep(a) ==
    /\ HasAccessors
    /\ Len(trace') = Len(trace) + 1
    /\ trace'[Len(trace')].ev = "read"
    /\ trace'[Len(trace')].name = a

\* C16: reading the statistic or the p_value accessor of a test whose results
\* mapping lacks that key gives not-a-number, raises nothing and leaves the
\* results mapping as it was.
C16_MissingKeyReadsNaN ==
    [][\A a \in {"statistic", "p_value"} :
          (ReadStep(a) /\ ~HasKey(obj.results, a)) =>
              /\ trace'[Len(trace')].args = <<NaN>>
              /\ err' = "none"
              /\ obj'.results = obj.results]_vars

\* both accessors of a base-class Test, which stores neither key, were read
C16_Witness ==
    /\ call.op = "Test"
    /\ obj.results = EmptyDict
    /\ \E i, j \in DOMAIN trace :
         /\ trace[i].ev = "read" /\ trace[i].name = "statistic"
         /\ trace[i].args = <<NaN>>
         /\ trace[j].ev = "read" /\ trace[j].name = "p_value"
         /\ trace[j].args = <<NaN>>

\* a sample as the cleaning pipeline promises it: numbers only, nan dropped,
\* longer than the minimum size
IsCleanSample(v, min_size) ==
    /\ Len(v) > min_size
    /\ \A i \in 1..Len(v) : v[i] \notin {NaN, STR}
OwnPreps ==
    {i \in DOMAIN trace : trace[i].ev = "prep" /\ trace[i].name = call.op}
MinSizeFor(fn) == IF fn = "shapiro" THEN Test_min_size ELSE Comparison_min_size

\* C17: in every construction cleaning runs exactly once and before run(),
\* and every sample handed to a numeric library routine is one that passed
\* cleaning: nan dropped, not empty, longer than min_size. No routine is
\* called on data for which a cleaning check failed or was skipped.
C17_RoutinesGetCleanedData ==
    (PairedCall /\ call.x # <<>> /\ call.y # <<>>) =>
        /\ Cardinality(OwnPreps) = 1
        /\ \A p \in OwnPreps, l \in AllLibCalls : p < l
        /\ \A l \in AllLibCalls :
             \A k \in 1..Len(trace[l].args) :
                IsCleanSample(trace[l].args[k].val, MinSizeFor(trace[l].name))

\* the same for the pairs that pass every cleaning check
C17_ValidPairsAreCleaned ==
    ValidPair => C17_RoutinesGetCleanedData

\* the members of the group input that pass the cleaning of Test, by position
TestSurvivors ==
    SelectSeq([i \in 1..Len(call.group) |-> i],
              LAMBDA i : Survives(call.group[i], Test_min_size))
\* the calls of the normality routine, in the order they were made
ShapiroCalls ==
    SelectSeq([i \in 1..Len(trace) |-> i],
              LAMBDA i : trace[i].ev = "lib" /\ trace[i].name = "shapiro")

\* C18: NormTest over a group runs the normality routine once per member, in
\* order, and reports as p_value the minimum p-value across the members and
\* as statistic the W value of the first member attaining that minimum.
C18_NormTestReportsWorstMember ==
    (call.op = "NormTest" /\ Len(TestSurvivors) >= 1) =>
        /\ err = "none"
        /\ Len(ShapiroCalls) = Len(TestSurvivors)
        /\ \A n \in 1..Len(ShapiroCalls) :
             trace[ShapiroCalls[n]].args =
                <<Vec(CleanOf(call.group[TestSurvivors[n]]))>>
        /\ \A n \in 1..Len(ShapiroCalls) :
             obj.results["p_value"] <= trace[ShapiroCalls[n]].p
        /\ \E n \in 1..Len(ShapiroCalls) :
             /\ trace[ShapiroCalls[n]].p = obj.results["p_value"]
             /\ \A m \in 1..(n - 1) :
                  trace[ShapiroCalls[m]].p # obj.results["p_value"]
             /\ obj.results["statistic"] =
                  LibVal("shapiro", "W", trace[ShapiroCalls[n]].args)

\* a group whose minimum p-value is attained by its second and third members
\* only: the statistic reported is the second member's
C18_Witness ==
    /\ call.op = "NormTest"
    /\ Len(TestSurvivors) = 3
    /\ Len(ShapiroCalls) = 3
    /\ trace[ShapiroCalls[1]].p = 9
    /\ trace[ShapiroCalls[2]].p = 1
    /\ trace[ShapiroCalls[3]].p = 1
    /\ trace[ShapiroCalls[2]].args # trace[ShapiroCalls[3]].args
    /\ obj.results["statistic"] = LibVal("shapiro", "W", trace[ShapiroCalls[2]].args)

\* the input of the analyze call passes the cleaning of its branch
AnalyzeInputUsable ==
    CASE call.xshape \in {"group", "dict"} -> ValidGroup
      [] AnalyzePairCalled                 -> ValidPair
      [] call.xshape = "vector"            -> Survives(call.x, Test_min_size)
      [] OTHER                             -> FALSE
TestCtors ==
    {i \in DOMAIN trace : trace[i].ev = "ctor" /\ trace[i].name \in TestClasses}

\* C19: every test analyze constructs (EqualVariance, NormTest, TTest, Anova,
\* Kruskal, LinearRegression, Correlation) has the alpha passed to analyze as
\* its significance threshold, whatever that alpha is.
C19_AnalyzePassesAlpha ==
    (call.op = "analyze" /\ AnalyzeInputUsable) =>
        \A c \in TestCtors : trace[c].alpha = call.alpha

\* the same for the default alpha, and for the single-sample branch
C19_AlphaReachesNormTest ==
    (call.op = "analyze" /\ AnalyzeInputUsable) =>
        \A c \in TestCtors :
           (call.alpha = DefaultAlpha \/ (call.xshape = "vector" /\ ~AnalyzePairCalled))
              => trace[c].alpha = call.alpha


---------------------------------------------------------------------------
(* C20 *)

GroupTests == {"Anova", "Kruskal", "EqualVariance"}
GroupRoutines == {"f_oneway", "kruskal", "bartlett", "levene"}

\* C20: Anova, Kruskal and EqualVariance call their numeric routine only when
\* at least two members of the input survived cleaning; with fewer than two
\* survivors no group routine is called on what remains.
C20_RoutineNeedsTwoSamples ==
    (call.op \in GroupTests /\ LibCalls(GroupRoutines) # {}) =>
        Len(TestSurvivors) >= 2

\* with two or more survivors the routine is called once, on the cleaned
\* survivors in the order they were supplied
C20_RoutineOnSurvivors ==
    (call.op \in GroupTests /\ Len(TestSurvivors) >= 2) =>
        /\ Cardinality(LibCalls(GroupRoutines)) = 1
        /\ \A i \in LibCalls(GroupRoutines) :
              trace[i].args =
                 [j \in 1..Len(TestSurvivors) |->
                     Vec(CleanOf(call.group[TestSurvivors[j]]))]

=============================================================================
